---- MODULE Spec2Model ----
(***************************************************************************)
(* A model of the Santorini position evaluator (santorini/SantoriniNNet.py) *)
(* and of its partial-pooling operators.                                    *)
(*                                                                          *)
(* Tensors are modelled by their shapes (sequences of dimensions) and,     *)
(* where a claim is about values, by small integer contents.  Real numbers *)
(* are integers: logits are whole numbers, exp() is taken in thousandths.   *)
(***************************************************************************)
EXTENDS Integers, Sequences, FiniteSets, TLC

VARIABLES
    status,     \* evaluator: "absent" | "ready" | "failed" (constructor raised)
    version,    \* self.version of the evaluator the caller holds (NoVersion if none)
    stages,     \* names of the sub-layers the constructor registered
    training,   \* nn.Module.training of the evaluator
    bn,         \* running statistics of the batch-normalisation layers
    weights,    \* parameters of the two output heads
    call,       \* the forward() call that is about to return: arguments and result
    ref,        \* the first evaluation-mode result for the probe since the weights were set
    dense,      \* a DenseAndPartialGPool operator: its configuration and state
    denseCall,  \* the DenseAndPartialGPool.forward call that is about to return
    conv,       \* a Conv2dAndPartialMaxPool operator: its configuration and state
    convCall,   \* the Conv2dAndPartialMaxPool.forward call that is about to return
    flat,       \* a FlattenAndPartialGPool operator: its configuration
    flatCall,   \* the FlattenAndPartialGPool.forward call that is about to return
    arena,      \* an Arena: the position of playGames / playGame and their locals
    asked       \* the version id the constructor was last called with

evalVars  == <<status, version, stages, training, bn, weights, call, ref, asked>>
denseVars == <<dense, denseCall>>
convVars  == <<conv, convCall>>
flatVars  == <<flat, flatCall>>
vars      == <<status, version, stages, training, bn, weights, call, ref,
               dense, denseCall, conv, convCall, flat, flatCall, arena, asked>>

----------------------------------------------------------------------------
(* Bounds of the model and constants of the program *)

ActionSize == 3             \* game.getActionSize()
MaxBatch   == 2             \* largest number of boards in one encoding
MaxTrainCalls == 1          \* cap on num_batches_tracked

NbVect     == 25            \* game.getBoardSize()[0]
VectDim    == 3             \* game.getBoardSize()[1]
NumPlayers == 2
LowValue   == -100000000    \* the 'lowvalue' buffer, -1e8

NoVersion == 0 - 1000

Actions == 1..ActionSize

----------------------------------------------------------------------------
(* Small helpers *)

RECURSIVE SumTo(_, _)
SumTo(s, n) == IF n = 0 THEN 0 ELSE s[n] + SumTo(s, n - 1)

SeqSum(s) == SumTo(s, Len(s))

RECURSIVE SeqProd(_)
SeqProd(s) == IF s = <<>> THEN 1 ELSE Head(s) * SeqProd(Tail(s))

SeqMax(s) == CHOOSE m \in {s[i] : i \in 1..Len(s)} : \A i \in 1..Len(s) : s[i] <= m

Rep(n, x) == [i \in 1..n |-> x]

----------------------------------------------------------------------------
(* The architecture registry: SantoriniNNet.__init__                        *)
(* A stage is a record [kind, in, out]: the layer and the sizes it declares.*)
(* ReLU declares no size and is left out of the lists.                      *)

Conv(i, o)   == [kind |-> "conv",     in |-> i, out |-> o]
BN2(c)       == [kind |-> "bn2d",     in |-> c, out |-> c]
Lin(i, o)    == [kind |-> "linear",   in |-> i, out |-> o]
BN1(c)       == [kind |-> "bn1d",     in |-> c, out |-> c]
GPool1(i, o) == [kind |-> "gpool1d",  in |-> i, out |-> o]
GPool2(i, o) == [kind |-> "gpool2d",  in |-> i, out |-> o]
Block(i, o)  == [kind |-> "block",    in |-> i, out |-> o]
Ident        == [kind |-> "identity", in |-> 0, out |-> 0]
Flat         == [kind |-> "flatten",  in |-> 0, out |-> 0]
Flat1        == [kind |-> "flatten1", in |-> 0, out |-> 0]
Cat(n)       == [kind |-> "cat",      in |-> n, out |-> 0]
Squeeze      == [kind |-> "squeeze",  in |-> 0, out |-> 0]

ArchVersions == {1, 10, 11, 12, 13, 20, 21, 22, 23, 24, 25, 66, 67, 70}
EmptyVersion == -1           \* the 'empty NN' special case
UnknownVersions == {0, 2, 99}
VersionIds == ArchVersions \cup {EmptyVersion} \cup UnknownVersions

\* The sub-layers version v registers, in the order forward() runs them:
\* trunk on the board planes, side on the auxiliary plane, then the two heads.
Layers(v) ==
    CASE v = 1 ->
        [trunk |-> <<Lin(NbVect * VectDim, 128), GPool1(128, 128),
                     Lin(128, 128), BN1(1), Lin(128, 128), GPool1(128, 128),
                     Lin(128, 128), BN1(1), Lin(128, 128), BN1(1)>>,
         side  |-> <<>>,
         pi    |-> <<Lin(128, 128), Lin(128, ActionSize), Squeeze>>,
         v     |-> <<Lin(128, 128), Lin(128, NumPlayers), Squeeze>>]
      [] v = 10 ->
        [trunk |-> <<Conv(2, 64), BN2(64), Conv(64, 64), BN2(64), GPool2(64, 64),
                     Conv(64, 32), BN2(32), Flat, Lin(32 * 5 * 5, 256),
                     Lin(256, 256), BN1(1), Lin(256, 256)>>,
         side  |-> <<>>,
         pi    |-> <<Lin(256, 128), Lin(128, ActionSize), Squeeze>>,
         v     |-> <<Lin(256, 128), Lin(128, NumPlayers), Squeeze>>]
      [] v = 11 ->
        [trunk |-> <<Conv(3, 64), BN2(64), Conv(64, 64), BN2(64), Ident,
                     Conv(64, 32), BN2(32), Flat, Lin(32 * 5 * 5, 256),
                     Lin(256, 256), BN1(1), Lin(256, 256)>>,
         side  |-> <<>>,
         pi    |-> <<Lin(256, 128), Lin(128, ActionSize), Squeeze>>,
         v     |-> <<Lin(256, 128), Lin(128, NumPlayers), Squeeze>>]
      [] v = 12 ->
        [trunk |-> <<Conv(2, 64), BN2(64), Conv(64, 128), BN2(128), GPool2(128, 128),
                     Conv(128, 64), BN2(64), Flat, Lin(64 * 5 * 5, 256),
                     Lin(256, 256), BN1(1), Lin(256, 256), BN1(1), Lin(256, 256)>>,
         side  |-> <<>>,
         pi    |-> <<Lin(256, 128), Lin(128, ActionSize), Squeeze>>,
         v     |-> <<Lin(256, 128), Lin(128, NumPlayers), Squeeze>>]
      [] v = 13 ->
        [trunk |-> <<Conv(2, 32), BN2(32), Conv(32, 32), BN2(32), Conv(32, 32), BN2(32),
                     Conv(32, 32), BN2(32), Ident, Ident, Flat, Lin(32 * 5 * 5, 1024),
                     Lin(1024, 512), BN1(1)>>,
         side  |-> <<>>,
         pi    |-> <<Lin(512, ActionSize), Squeeze>>,
         v     |-> <<Lin(512, NumPlayers), Squeeze>>]
      [] v = 20 ->
        [trunk |-> <<Conv(2, 64), BN2(64), Conv(64, 64), BN2(64), Ident,
                     Conv(64, 64), BN2(64), Flat, Cat(5 * 5), Lin((64 + 1) * 5 * 5, 512),
                     Lin(512, 512), BN1(1), Lin(512, 512)>>,
         side  |-> <<Lin(5 * 5, 5 * 5), BN1(1)>>,
         pi    |-> <<Lin(512, 256), Lin(256, ActionSize), Squeeze>>,
         v     |-> <<Lin(512, 256), Lin(256, NumPlayers), Squeeze>>]
      [] v = 21 ->
        [trunk |-> <<Conv(2, 128), BN2(128), Conv(128, 128), BN2(128), Ident,
                     Conv(128, 128), BN2(128), Flat, Cat(5 * 5),
                     Lin((128 + 1) * 5 * 5, 1024),
                     Lin(1024, 1024), BN1(1), Lin(1024, 1024)>>,
         side  |-> <<Lin(5 * 5, 5 * 5), BN1(1)>>,
         pi    |-> <<Lin(1024, 256), Lin(256, ActionSize), Squeeze>>,
         v     |-> <<Lin(1024, 256), Lin(256, NumPlayers), Squeeze>>]
      [] v = 22 ->
        [trunk |-> <<Conv(2, 64), BN2(64), Conv(64, 64), BN2(64),
                     Conv(64, 64), BN2(64), Conv(64, 64), BN2(64), Ident,
                     Conv(64, 64), BN2(64), Conv(64, 64), BN2(64), Flat, Cat(5 * 5),
                     Lin((64 + 1) * 5 * 5, 512), Lin(512, 512),
                     Lin(512, 512), BN1(1), Lin(512, 512), BN1(1),
                     Lin(512, 512), BN1(1), Lin(512, 512)>>,
         side  |-> <<Lin(5 * 5, 5 * 5), BN1(1)>>,
         pi    |-> <<Lin(512, 512), Lin(512, ActionSize), Squeeze>>,
         v     |-> <<Lin(512, 512), Lin(512, NumPlayers), Squeeze>>]
      [] v = 23 ->
        [trunk |-> <<Conv(2, 128), BN2(128), Conv(128, 128), BN2(128),
                     Conv(128, 128), BN2(128), Conv(128, 128), BN2(128), Ident,
                     Conv(128, 128), BN2(128), Conv(128, 128), BN2(128), Flat, Cat(5 * 5),
                     Lin((128 + 1) * 5 * 5, 512),
                     Lin(512, 512), BN1(1), Lin(512, 256)>>,
         side  |-> <<Lin(5 * 5, 5 * 5), BN1(1), Lin(5 * 5, 5 * 5), BN1(1)>>,
         pi    |-> <<Lin(256, 256), Lin(256, ActionSize), Squeeze>>,
         v     |-> <<Lin(256, 256), Lin(256, NumPlayers), Squeeze>>]
      [] v = 24 ->
        [trunk |-> <<Conv(2, 128), BN2(128), Conv(128, 128), BN2(128),
                     Conv(128, 128), Conv(128, 128), BN2(128), GPool2(128, 128),
                     Conv(128, 128), BN2(128), Conv(128, 128), BN2(128), Flat, Cat(5 * 5),
                     Lin((128 + 1) * 5 * 5, 512),
                     Lin(512, 512), BN1(1), Lin(512, 256), BN1(1)>>,
         side  |-> <<Lin(5 * 5, 5 * 5), BN1(1), Lin(5 * 5, 5 * 5), BN1(1)>>,
         pi    |-> <<Lin(256, 256), Lin(256, ActionSize), Squeeze>>,
         v     |-> <<Lin(256, 256), Lin(256, NumPlayers), Squeeze>>]
      [] v = 25 ->
        [trunk |-> <<Conv(2, 128), BN2(128), Conv(128, 128), BN2(128),
                     Conv(128, 128), BN2(128), Conv(128, 128), BN2(128), GPool2(128, 128),
                     Conv(128, 128), BN2(128), Conv(128, 128), BN2(128), Flat, Cat(5 * 5),
                     Lin((128 + 1) * 5 * 5, 512), BN1(1),
                     Lin(512, 512), BN1(1), Lin(512, 256), BN1(1)>>,
         side  |-> <<Lin(5 * 5, 5 * 5), BN1(1), Lin(5 * 5, 5 * 5), BN1(1),
                     Lin(5 * 5, 5 * 5), BN1(1), Lin(5 * 5, 5 * 5), BN1(1)>>,
         pi    |-> <<Lin(256, 256), Lin(256, ActionSize), Squeeze>>,
         v     |-> <<Lin(256, NumPlayers), Squeeze>>]
      [] v = 70 ->
        [trunk |-> <<Conv(2, 128), Block(128, 128), Block(128, 128), Block(128, 64)>>,
         side  |-> <<>>,
         pi    |-> <<Block(64, 64), Flat1, Lin(64 * 5 * 5, ActionSize),
                     Lin(ActionSize, ActionSize)>>,
         v     |-> <<Block(64, 64), Flat1, Lin(64 * 5 * 5, NumPlayers),
                     Lin(NumPlayers, NumPlayers)>>]
      [] v = 66 ->
        [trunk |-> <<Conv(2, 16)>> \o Rep(5, Block(16, 16)) \o <<Block(16, 32)>>
                     \o Rep(4, Block(32, 32)) \o <<Block(32, 32)>>,
         side  |-> <<>>,
         pi    |-> Rep(6, Block(32, 32)) \o
                   <<Flat1, Lin(32 * 5 * 5, ActionSize), Lin(ActionSize, ActionSize)>>,
         v     |-> Rep(6, Block(32, 32)) \o
                   <<Flat1, Lin(32 * 5 * 5, NumPlayers), Lin(NumPlayers, NumPlayers)>>]
      [] v = 67 ->
        [trunk |-> <<Conv(2, 16)>> \o Rep(5, Block(16, 16)) \o <<Block(16, 32)>>
                     \o Rep(4, Block(32, 32)) \o <<Block(32, 32)>>,
         side  |-> <<>>,
         pi    |-> Rep(6, Block(32, 32)) \o
                   <<Flat1, Cat(5 * 5), Lin((32 + 1) * 5 * 5, ActionSize),
                     Lin(ActionSize, ActionSize)>>,
         v     |-> Rep(6, Block(32, 32)) \o
                   <<Flat1, Cat(5 * 5), Lin((32 + 1) * 5 * 5, NumPlayers),
                     Lin(NumPlayers, NumPlayers)>>]
      [] OTHER ->
        [trunk |-> <<>>, side |-> <<>>, pi |-> <<>>, v |-> <<>>]

----------------------------------------------------------------------------
(* Shapes.  A shape is a sequence of dimensions; Err marks a raised error.  *)

Err == <<>>

\* Strides of a contiguous tensor of the given shape.
ContigStrides(shape) ==
    [i \in 1..Len(shape) |-> SeqProd(SubSeq(shape, i + 1, Len(shape)))]

\* x.transpose(-1, -2): sizes and strides of the last two dimensions swapped.
SwapLast2(s) ==
    LET n == Len(s) IN [i \in 1..n |-> IF i = n THEN s[n - 1]
                                       ELSE IF i = n - 1 THEN s[n] ELSE s[i]]

\* The inner loop of torch's view(): take view dimensions, from the last one,
\* until they cover the current chunk of the tensor.
RECURSIVE ViewEat(_, _, _, _)
ViewEat(newshape, view_d, view_numel, tensor_numel) ==
    IF view_d >= 1 /\ (view_numel < tensor_numel \/ newshape[view_d] = 1)
    THEN ViewEat(newshape, view_d - 1, view_numel * newshape[view_d], tensor_numel)
    ELSE <<view_d, view_numel>>

\* Whether sizes/strides (osz, ost) can be viewed as newshape without a copy:
\* every chunk of dimensions that is contiguous in memory must be covered by
\* a run of view dimensions exactly.
RECURSIVE ViewChunks(_, _, _, _, _, _, _)
ViewChunks(osz, ost, newshape, tensor_d, view_d, chunk_base, numel0) ==
    LET tn  == numel0 * osz[tensor_d]
        end == \/ tensor_d = 1
               \/ (osz[tensor_d - 1] # 1 /\ ost[tensor_d - 1] # tn * chunk_base)
        e   == ViewEat(newshape, view_d, 1, tn)
    IN  IF ~end
        THEN ViewChunks(osz, ost, newshape, tensor_d - 1, view_d, chunk_base, tn)
        ELSE IF e[2] # tn THEN FALSE
        ELSE IF tensor_d = 1 THEN e[1] = 0
        ELSE ViewChunks(osz, ost, newshape, tensor_d - 1, e[1], ost[tensor_d - 1], 1)

\* input_data.transpose(-1, -2).view(-1, tail...): the resulting shape, or Err.
TransposeView(shape, tail) ==
    LET numel == SeqProd(shape)
        rest  == SeqProd(tail)
        osz   == SwapLast2(shape)
        ost   == SwapLast2(ContigStrides(shape))
        new   == <<numel \div rest>> \o tail
    IN  IF Len(shape) < 2 \/ numel % rest # 0 THEN Err
        ELSE IF ViewChunks(osz, ost, new, Len(osz), Len(new), ost[Len(ost)], 1)
        THEN new ELSE Err

\* The layout forward() asks view() for, after the batch dimension.
ViewTail(v) == IF v = 1 THEN <<VectDim, NbVect>> ELSE <<3, 5, 5>>

\* The encoding shape the version is declared for: one board, or a batch.
DeclaredInput(shape) ==
    /\ Len(shape) \in {2, 3}
    /\ SubSeq(shape, Len(shape) - 1, Len(shape)) = <<NbVect, VectDim>>

\* Number of boards a declared encoding holds.
BoardsIn(shape) == IF Len(shape) = 3 THEN shape[1] ELSE 1

\* Per-board shape handed to the first stage of the trunk.
TrunkInput(v) ==
    IF v = 1 THEN <<1, VectDim * NbVect>>
    ELSE IF v \in {10, 11, 12, 13} THEN <<3, 5, 5>>
    ELSE <<2, 5, 5>>

\* Per-board shape of the auxiliary plane after flatten
SideInput(v) == IF v = 67 THEN <<5 * 5>> ELSE <<1, 5 * 5>>

\* One stage applied to a per-board shape: PyTorch checks the declared input
\* size of a layer when the layer runs.
ApplyStage(s, sh, aux) ==
    LET n == Len(sh) IN
    CASE s.kind \in {"conv", "block", "gpool2d"} ->
            IF n = 3 /\ sh[1] = s.in THEN <<s.out, sh[2], sh[3]>> ELSE Err
      [] s.kind = "bn2d" ->
            IF n = 3 /\ sh[1] = s.in THEN sh ELSE Err
      [] s.kind \in {"linear", "gpool1d"} ->
            IF n >= 1 /\ sh[n] = s.in THEN [sh EXCEPT ![n] = s.out] ELSE Err
      [] s.kind = "bn1d" ->
            IF n = 2 /\ sh[1] = s.in THEN sh ELSE Err
      [] s.kind = "flatten"  -> <<1, SeqProd(sh)>>
      [] s.kind = "flatten1" -> <<SeqProd(sh)>>
      [] s.kind = "cat" ->
            IF aux = Err THEN Err ELSE [sh EXCEPT ![n] = sh[n] + aux[Len(aux)]]
      [] s.kind = "squeeze" ->
            IF n = 2 /\ sh[1] = 1 THEN <<sh[2]>> ELSE sh
      [] OTHER -> sh

RECURSIVE RunStages(_, _, _)
RunStages(ss, sh, aux) ==
    IF ss = <<>> \/ sh = Err THEN sh
    ELSE RunStages(Tail(ss), ApplyStage(Head(ss), sh, aux), aux)

\* Shapes of the two head outputs of one board, Err where a stage refuses
\* its input.
ForwardShapes(v, L) ==
    LET side  == RunStages(L.side, SideInput(v), Err)
        trunk == RunStages(L.trunk, TrunkInput(v), side)
    IN  [pi |-> RunStages(L.pi, trunk, side), v |-> RunStages(L.v, trunk, side)]

----------------------------------------------------------------------------
(* Numbers.  Logits and features are integers; running statistics are kept  *)
(* in tenths, exp() in thousandths.                                         *)

MaxSeed  == 0               \* board contents are drawn from seeds 0..MaxSeed
DropoutPct == 50            \* self.args['dropout'], in percent
LargeW   == 100000000       \* magnitude of the largest head weight considered

\* Integer square roots, tabulated.
MaxSquare == 20 * 20
IsqrtTable == [n \in 0..MaxSquare |->
                 CHOOSE r \in 0..(n + 1) : r * r <= n /\ n < (r + 1) * (r + 1)]
Isqrt(n) == IsqrtTable[n]

\* exp(d) in thousandths for d <= 0; it underflows to 0.
ExpMilli(d) ==
    CASE d = 0 -> 1000 [] d = -1 -> 368 [] d = -2 -> 135 [] d = -3 -> 50
      [] d = -4 -> 18  [] d = -5 -> 7   [] d = -6 -> 2   [] d = -7 -> 1
      [] OTHER -> 0

\* floor(ln(s / 1000)) for s >= 1000, s in thousandths.
FloorLn(s) ==
    IF s < 2719 THEN 0 ELSE IF s < 7390 THEN 1 ELSE IF s < 20086 THEN 2
    ELSE IF s < 54599 THEN 3 ELSE 4

\* F.log_softmax(pi, dim=1) on one row: x - max(x) - log(sum(exp(x - max(x)))),
\* in whole nats.
LogSoftmaxUnnormalised(x) == x

LogSoftmax(x) ==
    LET m == SeqMax(x)
        s == SeqSum([i \in 1..Len(x) |-> ExpMilli(x[i] - m)])
    IN  [i \in 1..Len(x) |-> (x[i] - m) - FloorLn(s)]

\* torch.tanh in thousandths; it saturates.
TanhMilli(z) ==
    LET a == IF z < 0 THEN 0 - z ELSE z
        t == CASE a = 0 -> 0 [] a = 1 -> 762 [] a = 2 -> 964 [] a = 3 -> 995
               [] a = 4 -> 999 [] OTHER -> 1000
    IN  IF z < 0 THEN 0 - t ELSE t

\* Fresh batch-normalisation statistics: mean 0, variance 1, no batch seen.
FreshBN == [mean10 |-> 0, var10 |-> 10, nbt |-> 0]

\* Standard deviation in tenths, kept positive by eps.
Std10(var10) == IF Isqrt(10 * var10) < 1 THEN 1 ELSE Isqrt(10 * var10)

\* Statistics of the batch xs: mean and biased/unbiased variance, in tenths.
BatchStats(xs) ==
    LET n   == Len(xs)
        m10 == (10 * SeqSum(xs)) \div n
        sq  == SeqSum([b \in 1..n |-> (10 * xs[b] - m10) * (10 * xs[b] - m10)])
    IN  [mean10 |-> m10,
         var10  |-> sq \div (10 * n),
         uvar10 |-> IF n > 1 THEN sq \div (10 * (n - 1)) ELSE 0]

\* The running statistics a batch-normalisation layer holds after a forward
\* pass: updated with momentum 0.1 in training mode, untouched otherwise.
BatchNormAlwaysUpdates(xs, st, train) ==
    LET b == BatchStats(xs) IN
    [mean10 |-> (9 * st.mean10 + b.mean10) \div 10,
     var10  |-> (9 * st.var10 + b.uvar10) \div 10,
     nbt    |-> st.nbt + 1]

BatchNormState(xs, st, train) ==
    LET b == BatchStats(xs) IN
    IF train
    THEN [mean10 |-> (9 * st.mean10 + b.mean10) \div 10,
          var10  |-> (9 * st.var10 + b.uvar10) \div 10,
          nbt    |-> st.nbt + 1]
    ELSE st

\* The output of a batch-normalisation layer: normalised by the statistics of
\* the batch in training mode, by the running statistics otherwise.
BatchNormEval(x, st) == (10 * x - st.mean10) \div Std10(st.var10)

BatchNormOut(xs, st, train) ==
    LET b == BatchStats(xs) IN
    [i \in 1..Len(xs) |->
        IF train THEN (10 * xs[i] - b.mean10) \div Std10(b.var10)
        ELSE BatchNormEval(xs[i], st)]

\* F.dropout(x, p, training): in training mode an element is zeroed or scaled
\* by 1 / (1 - p); keep is the draw of the random generator.
Dropout(x, p, train, keep) ==
    IF train /\ p > 0 THEN (IF keep THEN (100 * x) \div (100 - p) ELSE 0) ELSE x

\* Content of board b of an encoding (boards of one encoding differ).
Feature(input, b) == (input.seed + 2 * b) % 3

\* nn.Linear of an output head on the trunk feature y.
Linear(w, y) == [i \in 1..Len(w.w) |-> w.w[i] * y + w.b[i]]

\* torch.where(valid_actions, logits, self.lowvalue)
MaskInverted(valid, logits) ==
    [i \in 1..Len(logits) |-> IF valid[i] THEN LowValue ELSE logits[i]]

MaskLogits(valid, logits) ==
    [i \in 1..Len(logits) |-> IF valid[i] THEN logits[i] ELSE LowValue]

----------------------------------------------------------------------------
(* The evaluator: SantoriniNNet *)

NoLayers == [trunk |-> <<>>, side |-> <<>>, pi |-> <<>>, v |-> <<>>]

NoWeights == [pi |-> [w |-> <<>>, b |-> <<>>], v |-> [w |-> <<>>, b |-> <<>>]]

\* Parameters of the two heads.  Families 1 and 2 are what the initialiser
\* can draw (small weights, zero bias); family 3 is a trained set.
HeadWeights(k) ==
    [pi |-> [w |-> [i \in Actions |->
                      CASE k = 1 -> i - 2
                        [] k = 2 -> 2 - i
                        [] OTHER -> IF i = 1 THEN 1 ELSE 0 - LargeW],
             b |-> [i \in Actions |-> IF k = 3 THEN i ELSE 0]],
     v  |-> [w |-> [q \in 1..NumPlayers |-> IF q = 1 THEN k ELSE 0 - k],
             b |-> [q \in 1..NumPlayers |-> 0]]]

InitWeightChoices  == {HeadWeights(1), HeadWeights(2)}
TrainedWeightChoices == {HeadWeights(1), HeadWeights(2), HeadWeights(3)}

\* Encodings of the declared shape: one board, or a batch of boards.
DeclaredShapes ==
    {<<NbVect, VectDim>>} \cup {<<n, NbVect, VectDim>> : n \in 1..MaxBatch}

\* Encodings of other shapes.
OtherShapes ==
    {<<NbVect, 2 * VectDim>>, <<5, 5, VectDim>>, <<NbVect, VectDim - 1>>,
     <<2 * NbVect, VectDim>>}

InputShapes == DeclaredShapes \cup OtherShapes

Masks == [Actions -> BOOLEAN]

AllValid == [i \in Actions |-> TRUE]

NoInput == [shape |-> <<>>, seed |-> 0]

NoCall == [kind |-> "none", input |-> NoInput, mask |-> <<>>,
           mode |-> FALSE, boards |-> 0, raw |-> <<>>, pi |-> <<>>,
           log_policy |-> <<>>, v |-> <<>>]

NoRef == [set |-> FALSE, log_policy |-> <<>>, v |-> <<>>, trained |-> FALSE,
          between |-> FALSE]

\* The encoding and mask whose evaluation-mode result ref remembers.
ProbeInput == [shape |-> <<NbVect, VectDim>>, seed |-> 0]
ProbeMask  == AllValid

\* Tables of the shape computations, by version and by encoding shape.
ShapeTable == [v \in VersionIds |-> ForwardShapes(v, Layers(v))]
ViewTable  == [s \in InputShapes |-> [v \in VersionIds |-> TransposeView(s, ViewTail(v))]]

\* The version dispatch of the constructor: the branches that do not raise.
AcceptsAnyVersion(v) == TRUE

Accepts(v) == v = EmptyVersion \/ v \in ArchVersions

\* SantoriniNNet(game, args); the caller is single-threaded, so no forward()
\* is running.
Construct(v) ==
    /\ call.kind = "none"
    /\ asked' = v
    /\ IF Accepts(v)
       THEN /\ status' = "ready"
            /\ version' = v
            /\ stages' = Layers(v)
            /\ training' = TRUE
            /\ weights' \in (IF v = EmptyVersion THEN {NoWeights} ELSE InitWeightChoices)
       ELSE /\ status' = "failed"
            /\ version' = NoVersion
            /\ stages' = NoLayers
            /\ training' = FALSE
            /\ weights' = NoWeights
    /\ bn' = FreshBN
    /\ call' = NoCall
    /\ ref' = NoRef
    /\ UNCHANGED <<dense, denseCall, conv, convCall, flatVars, arena>>

\* nnet.train() / nnet.eval(): sets the mode forward() reads
SetTraining(m) ==
    /\ status = "ready"
    /\ call.kind = "none"
    /\ training' = m
    /\ UNCHANGED <<status, version, stages, bn, weights, call, ref, asked,
                   dense, denseCall, conv, convCall, flatVars, arena>>

\* The training procedure replaces the parameters of the heads.
LoadWeights(w) ==
    /\ status = "ready"
    /\ version # EmptyVersion
    /\ call.kind = "none"
    /\ weights' = w
    /\ ref' = NoRef
    /\ UNCHANGED <<status, version, stages, training, bn, call, asked,
                   dense, denseCall, conv, convCall, flatVars, arena>>

\* What forward(input_data, valid_actions) returns and the statistics it
\* leaves, from the current state; keep is the draw dropout makes.
ForwardResult(input, mask, keep) ==
    LET viewed == ViewTable[input.shape][version]
        shapes == ShapeTable[version]
        raised == \/ version = EmptyVersion
                  \/ viewed = Err
                  \/ shapes.pi # <<ActionSize>>
                  \/ shapes.v # <<NumPlayers>>
        n      == viewed[1]
        xs     == [b \in 1..n |-> Feature(input, b)]
        ys     == BatchNormOut(xs, bn, training)
        hs     == [b \in 1..n |-> Dropout(ys[b], DropoutPct, training, keep)]
        raw    == [b \in 1..n |-> Linear(weights.pi, hs[b])]
        pi     == [b \in 1..n |-> MaskLogits(mask, raw[b])]
        vraw   == [b \in 1..n |-> Linear(weights.v, hs[b])]
    IN  IF raised
        THEN [call |-> [NoCall EXCEPT !.kind = "error", !.input = input,
                                      !.mask = mask, !.mode = training],
              bn   |-> bn]
        ELSE [call |-> [kind |-> "ok", input |-> input, mask |-> mask,
                        mode |-> training, boards |-> n, raw |-> raw, pi |-> pi,
                        log_policy |-> [b \in 1..n |-> LogSoftmax(pi[b])],
                        v |-> [b \in 1..n |->
                                 [q \in 1..NumPlayers |-> TanhMilli(vraw[b][q])]]],
              bn   |-> BatchNormState(xs, bn, training)]

\* nnet.forward(input_data, valid_actions), up to its return statement.  The
\* draw of dropout is only made in training mode.
Forward(input, mask, keep) ==
    /\ status = "ready"
    /\ call.kind = "none"
    /\ training \/ keep
    /\ \E r \in {ForwardResult(input, mask, keep)} :
       /\ r.bn.nbt <= MaxTrainCalls
       /\ call' = r.call
       /\ bn' = r.bn
       /\ ref' = IF ref.set
                 THEN [ref EXCEPT !.between = TRUE,
                                  !.trained = @ \/ (training /\ r.call.kind = "ok")]
                 ELSE IF r.call.kind = "ok" /\ ~training
                         /\ input = ProbeInput /\ mask = ProbeMask
                 THEN [set |-> TRUE, log_policy |-> r.call.log_policy,
                       v |-> r.call.v, trained |-> FALSE, between |-> FALSE]
                 ELSE ref
       /\ UNCHANGED <<status, version, stages, training, weights, asked,
                      dense, denseCall, conv, convCall, flatVars, arena>>

\* forward() returns, or its error reaches the caller.
Return ==
    /\ call.kind # "none"
    /\ call' = NoCall
    /\ UNCHANGED <<status, version, stages, training, bn, weights, ref, asked,
                   dense, denseCall, conv, convCall, flatVars, arena>>

----------------------------------------------------------------------------
(* DenseAndPartialGPool, in evaluation mode with fresh statistics *)

MaxDenseLen == 5            \* largest input_length and input vector
MaxDenseOut == 5            \* largest output_length
MaxGroups   == 2            \* largest nb_groups
MaxItems    == 2            \* largest nb_items_in_groups

\* Vector entries are multiples of Unit, so that group averages are whole.
Unit == 2 * 3
DenseValues == {0 - Unit, Unit}
DenseInputs == UNION {[1..n -> DenseValues] : n \in 0..MaxDenseLen}

ReLU(z) == IF z > 0 THEN z ELSE 0

\* The weight the dense part holds from input i to output j; biases are zero.
DenseWeight(j, i) == ((i + 2 * j) % 3) - 1

\* nn.Linear(in_features, out_features): allocating the out x in weight raises
\* for a negative size.
LinearInitLax(i, o) == TRUE

LinearInit(i, o) == i >= 0 /\ o >= 0

\* nn.Linear applied to a vector
DenseLinear(n_out, x) ==
    [j \in 1..n_out |-> SeqSum([i \in 1..Len(x) |-> DenseWeight(j, i) * x[i]])]

NoDense == [status |-> "absent", L |-> 0, Lp |-> 0, G |-> 0, K |-> 0, bn |-> FALSE]
NoDenseCall == [kind |-> "none", x |-> <<>>, out |-> <<>>]

\* DenseAndPartialGPool(input_length, output_length, nb_groups,
\*                      nb_items_in_groups, channels_for_batchnorm)
\* __init__ runs once in the life of the operator.
DenseInit(L, Lp, G, K, b) ==
    /\ dense' = [status |-> IF LinearInit(L - G * K, Lp - 2 * G)
                            THEN "ready" ELSE "failed",
                 L |-> L, Lp |-> Lp, G |-> G, K |-> K, bn |-> b]
    /\ denseCall' = NoDenseCall
    /\ UNCHANGED <<evalVars, conv, convCall, flatVars, arena>>

DenseConstruct ==
    /\ dense.status = "absent"
    /\ \E L \in 0..MaxDenseLen, Lp \in 0..MaxDenseOut, G \in 0..MaxGroups,
          K \in 1..MaxItems, b \in BOOLEAN : DenseInit(L, Lp, G, K, b)

\* nn.AvgPool1d(k) on one group of k entries
GroupAvgOfFirst(y, k) == y[1]

GroupAvg(y, k) == SeqSum(y) \div k

\* torch.cat(maxpool_results + avgpool_results + [dense_result], -1)
DenseCatAveragesFirst(maxes, avgs, tail) == avgs \o maxes \o tail

DenseCat(maxes, avgs, tail) == maxes \o avgs \o tail

\* DenseAndPartialGPool.forward(x) for the operator d: the output, or Err when
\* split() refuses the sizes.
DenseForwardResult(d, x) ==
    LET dense_input  == d.L - d.G * d.K
        dense_output == d.Lp - 2 * d.G
        group(g)     == SubSeq(x, (g - 1) * d.K + 1, g * d.K)
        maxes        == [g \in 1..d.G |-> SeqMax(group(g))]
        avgs         == [g \in 1..d.G |-> GroupAvg(group(g), d.K)]
        rest         == SubSeq(x, d.G * d.K + 1, Len(x))
        lin          == DenseLinear(dense_output, rest)
        normed       == IF d.bn THEN BatchNormOut(lin, FreshBN, FALSE) ELSE lin
        tail         == [j \in 1..dense_output |-> ReLU(normed[j])]
    IN  IF dense_input < 0 \/ d.G * d.K + dense_input # Len(x) THEN Err
        ELSE DenseCat(maxes, avgs, tail)

\* forward() on the constructed operator, up to its return statement, on a
\* vector of the declared length or one entry off it.  An empty output of an
\* accepted call is told from a refused call by kind.
DenseForward(x) ==
    /\ dense.status = "ready"
    /\ denseCall.kind = "none"
    /\ Len(x) \in (dense.L - 1)..(dense.L + 1)
    /\ \E out \in {DenseForwardResult(dense, x)} :
          denseCall' = [kind |-> IF dense.L = Len(x) THEN "ok" ELSE "error",
                        x |-> x, out |-> out]
    /\ UNCHANGED <<evalVars, dense, conv, convCall, flatVars, arena>>

\* forward() returns, or its error reaches the caller.
DenseReturn ==
    /\ denseCall.kind # "none"
    /\ denseCall' = NoDenseCall
    /\ UNCHANGED <<evalVars, dense, conv, convCall, flatVars, arena>>

----------------------------------------------------------------------------
(* Conv2dAndPartialMaxPool, in evaluation mode with fresh statistics.  A
   tensor of one board is a sequence of planes, a plane a sequence of rows. *)

MaxChanIn   == 4            \* largest input_length and channel count fed
MaxChanOut  == 3            \* largest output_length
MaxKernel   == 3            \* largest kernel_conv and kernel_maxplanar
MaxPlanar   == 1            \* largest nb_channel_maxplanar
MaxGroupsC  == 1            \* largest nb_groups_maxchannel
MaxKernelC  == 2            \* largest kernel_maxchannel
Height      == 2            \* rows of the planes fed
Width       == 2            \* columns of the planes fed
MaxPattern  == 1            \* input planes are drawn from patterns 0..MaxPattern

PlaneH(p) == Len(p)
PlaneW(p) == IF Len(p) = 0 THEN 0 ELSE Len(p[1])

\* Output size of a stride-1 window of size k with padding k // 2
WindowOut(n, k) == n + 2 * (k \div 2) - k + 1

SetMax(S) == CHOOSE m \in S : \A z \in S : z <= m

\* nn.MaxPool2d(k, stride=1, padding=k // 2) on one plane; the padding never
\* wins the maximum.
MaxPlanarPool(p, k) ==
    LET pad == k \div 2
        window(h, w) ==
            {p[i][j] : i \in ((h - pad)..(h - pad + k - 1)) \cap (1..PlaneH(p)),
                       j \in ((w - pad)..(w - pad + k - 1)) \cap (1..PlaneW(p))}
    IN  [h \in 1..WindowOut(PlaneH(p), k) |->
           [w \in 1..WindowOut(PlaneW(p), k) |-> SetMax(window(h, w))]]

\* nn.MaxPool2d((k, 1)) across the permuted channel axis of k planes
MaxChannelPool(planes) ==
    [h \in 1..PlaneH(planes[1]) |->
       [w \in 1..PlaneW(planes[1]) |->
          SetMax({planes[c][h][w] : c \in 1..Len(planes)})]]

\* The weights and biases the convolution holds
ConvWeight(o, c, dh, dw) == ((o + c + dh + 2 * dw) % 3) - 1
ConvBias(o) == o % 2

\* nn.Conv2d(.., n_out, k, padding=k // 2) applied to the planes of x after
\* the first skip ones, H rows by W columns each; the padding is zero.
Conv2dApply(x, skip, H, W, n_out, k) ==
    LET pad == k \div 2
        term(o, h, w) ==
            [n \in 1..((Len(x) - skip) * k * k) |->
                LET c  == ((n - 1) \div (k * k)) + 1
                    dh == ((n - 1) % (k * k)) \div k
                    dw == (n - 1) % k
                    i  == h - pad + dh
                    j  == w - pad + dw
                IN  IF i \in 1..H /\ j \in 1..W
                    THEN ConvWeight(o, c, dh, dw) * x[skip + c][i][j]
                    ELSE 0]
    IN  [o \in 1..n_out |->
           [h \in 1..WindowOut(H, k) |->
              [w \in 1..WindowOut(W, k) |-> ConvBias(o) + SeqSum(term(o, h, w))]]]

\* nn.Conv2d(in_channels, out_channels, ..): allocating the weight raises for a
\* negative channel count.
Conv2dInitLax(i, o) == TRUE

Conv2dInit(i, o) == i >= 0 /\ o >= 0

NoConv == [status |-> "absent", C |-> 0, Cp |-> 0, kernel_conv |-> 0, P |-> 0,
           kernel_maxplanar |-> 0, Gc |-> 0, Kc |-> 0, bn |-> FALSE,
           conv_input |-> 0, conv_output |-> 0]
NoConvCall == [kind |-> "none", x |-> <<>>, out |-> <<>>]

\* Conv2dAndPartialMaxPool(input_length, output_length, kernel_conv,
\*     nb_channel_maxplanar, kernel_maxplanar, nb_groups_maxchannel,
\*     kernel_maxchannel, batchnorm); __init__ runs once in the life of the
\* operator.
ConvInit(C, Cp, kc, P, kp, Gc, Kc, b) ==
    /\ LET conv_input  == C - P - Gc * Kc
           conv_output == Cp - P - Gc
       IN  conv' = [status |-> IF Conv2dInit(conv_input, conv_output)
                               THEN "ready" ELSE "failed",
                    C |-> C, Cp |-> Cp, kernel_conv |-> kc, P |-> P,
                    kernel_maxplanar |-> kp, Gc |-> Gc, Kc |-> Kc, bn |-> b,
                    conv_input |-> conv_input, conv_output |-> conv_output]
    /\ convCall' = NoConvCall
    /\ UNCHANGED <<evalVars, dense, denseCall, flatVars, arena>>

ConvConstruct ==
    /\ conv.status = "absent"
    /\ \E C \in 0..MaxChanIn, Cp \in 0..MaxChanOut, kc \in 1..MaxKernel,
          P \in 0..MaxPlanar, kp \in 1..MaxKernel, Gc \in 0..MaxGroupsC,
          Kc \in 1..MaxKernelC, b \in BOOLEAN :
             ConvInit(C, Cp, kc, P, kp, Gc, Kc, b)

\* torch.cat(maxplanar_results + maxchannel_results + [conv_result], 1): Err
\* unless all planes have one size.
ConvCat(planar, channel, convolved) ==
    LET all == planar \o channel \o convolved
    IN  IF \A n \in 1..Len(all) :
              PlaneH(all[n]) = PlaneH(all[1]) /\ PlaneW(all[n]) = PlaneW(all[1])
        THEN all ELSE Err

\* Conv2dAndPartialMaxPool.forward(x) for the operator d, which has at least
\* one channel into and out of its convolution: the output planes, or Err
\* when split() or cat() refuses the sizes.
ConvForwardResult(d, x) ==
    LET planar    == [i \in 1..d.P |-> MaxPlanarPool(x[i], d.kernel_maxplanar)]
        band(j)   == SubSeq(x, d.P + (j - 1) * d.Kc + 1, d.P + j * d.Kc)
        channel   == [j \in 1..d.Gc |-> MaxChannelPool(band(j))]
        H         == PlaneH(x[1])
        W         == PlaneW(x[1])
        conved    == Conv2dApply(x, d.P + d.Gc * d.Kc, H, W, d.conv_output,
                                 d.kernel_conv)
        normed(z) == IF d.bn THEN BatchNormEval(z, FreshBN) ELSE z
        convolved == [o \in 1..d.conv_output |->
                        [h \in 1..WindowOut(H, d.kernel_conv) |->
                           [w \in 1..WindowOut(W, d.kernel_conv) |->
                              ReLU(normed(conved[o][h][w]))]]]
    IN  IF d.P + d.Gc * d.Kc + d.conv_input # Len(x) THEN Err
        ELSE ConvCat(planar, channel, convolved)

\* The planes fed: pattern s over n channels
ConvInput(n, s) ==
    [c \in 1..n |-> [h \in 1..Height |-> [w \in 1..Width |->
        (((5 * c + 3 * h + 2 * w + s) * (s + 1)) % 7) - 3]]]

\* forward() on the constructed operator, up to its return statement, on the
\* declared number of channels or one off it.
ConvForward(n, s) ==
    /\ conv.status = "ready"
    /\ convCall.kind = "none"
    /\ conv.conv_input >= 1 /\ conv.conv_output >= 1
    /\ n \in (conv.C - 1)..(conv.C + 1)
    /\ \E x \in {ConvInput(n, s)} : \E out \in {ConvForwardResult(conv, x)} :
          convCall' = [kind |-> IF out = Err THEN "error" ELSE "ok",
                       x |-> x, out |-> out]
    /\ UNCHANGED <<evalVars, dense, denseCall, conv, flatVars, arena>>

\* forward() returns, or its error reaches the caller.
ConvReturn ==
    /\ convCall.kind # "none"
    /\ convCall' = NoConvCall
    /\ UNCHANGED <<evalVars, dense, denseCall, conv, flatVars, arena>>


----------------------------------------------------------------------------
(* FlattenAndPartialGPool.  The tensor of one board is a sequence of channels,
   a channel a sequence of positions. *)

MaxFlatChan == 3            \* largest number of channels fed
MaxFlatLen  == 3            \* largest number of positions fed
MaxFlatPool == 2            \* largest length_to_pool and nb_channels_to_pool

Min(a, b) == IF a < b THEN a ELSE b

NoFlat == [status |-> "absent", p |-> 0, c |-> 0]
NoFlatCall == [kind |-> "none", x |-> <<>>, out |-> <<>>]

\* FlattenAndPartialGPool(length_to_pool, nb_channels_to_pool); __init__ runs
\* once in the life of the operator and checks nothing.
FlatInit(p, c) ==
    /\ flat' = [status |-> "ready", p |-> p, c |-> c]
    /\ flatCall' = NoFlatCall
    /\ UNCHANGED <<evalVars, denseVars, convVars, arena>>

FlatConstruct ==
    /\ flat.status = "absent"
    /\ \E p \in 0..MaxFlatPool, c \in 0..MaxFlatPool : FlatInit(p, c)

\* nn.Flatten on channels: channel after channel
RECURSIVE Flatten(_)
Flatten(chans) ==
    IF chans = <<>> THEN <<>> ELSE Head(chans) \o Flatten(Tail(chans))

\* x[:, a:b, lo:hi] on one board, 1-based and inclusive
Slice(x, a, b, lo, hi) == [ch \in 1..(b - a + 1) |-> SubSeq(x[a + ch - 1], lo, hi)]

\* torch.cat([flatten(maxpool_result), flatten(avgpool_result),
\*            flatten(x_begin_lastC), flatten(x_end)], 1)
FlatCatEndFirst(maxes, avgs, lastC, xend) == maxes \o avgs \o xend \o lastC

FlatCat(maxes, avgs, lastC, xend) == maxes \o avgs \o lastC \o xend

\* FlattenAndPartialGPool.forward(x) for the operator f on C >= 1 channels of
\* L >= 1 positions, when the pools accept their input: slices clamp to the
\* tensor, the pools run along the channel axis of the first channels.
FlatForwardResult(f, x) ==
    LET C     == Len(x)
        L     == Len(x[1])
        pb    == Min(f.p, L)
        firstC == Slice(x, 1, Min(f.c, C), 1, pb)
        lastC == Slice(x, Min(f.c, C) + 1, C, 1, pb)
        xend  == Slice(x, 1, C, pb + 1, L)
        col(j) == [ch \in 1..Len(firstC) |-> firstC[ch][j]]
        maxes == [j \in 1..pb |-> SeqMax(col(j))]
        avgs  == [j \in 1..pb |-> SeqSum(col(j)) \div f.c]
    IN  FlatCat(maxes, avgs, Flatten(lastC), Flatten(xend))

\* Whether nn.MaxPool1d(k) / nn.AvgPool1d(k) raise on n entries: a window of size 0,
\* or no room for one window.
PoolRaises(k, n) == k < 1 \/ n < k

\* The channels fed: pattern s over C channels of L positions
FlatInput(C, L, s) ==
    [ch \in 1..C |-> [j \in 1..L |->
        Unit * ((((3 * ch + 2 * j + s) * (s + 1)) % 5) - 2)]]

\* forward() on the constructed operator, up to its return statement.  With
\* no position to pool the pools are handed an empty tensor, which they
\* either refuse or pass on as no entries.
FlatForward(C, L, s) ==
    /\ flat.status = "ready"
    /\ flatCall.kind = "none"
    /\ \E x \in {FlatInput(C, L, s)} :
          IF PoolRaises(flat.c, Min(flat.c, C))
          THEN flatCall' = [kind |-> "error", x |-> x, out |-> <<>>]
          ELSE \E out \in {FlatForwardResult(flat, x)} :
                  \/ flatCall' = [kind |-> "ok", x |-> x, out |-> out]
                  \/ /\ flat.p = 0
                     /\ flatCall' = [kind |-> "error", x |-> x, out |-> <<>>]
    /\ UNCHANGED <<evalVars, denseVars, convVars, flat, arena>>

\* forward() returns, or its error reaches the caller.
FlatReturn ==
    /\ flatCall.kind # "none"
    /\ flatCall' = NoFlatCall
    /\ UNCHANGED <<evalVars, denseVars, convVars, flat, arena>>

----------------------------------------------------------------------------
(* Arena.  The game and the two players are the environment: a board counts
   the moves made and holds how the game ended; a player may answer any
   action. *)

MaxGames    == 4            \* largest num given to playGames
MaxMoves    == 2            \* a game ends after at most this many moves
MaxArenaActions == 2        \* number of actions of the game

ArenaActions == 1..MaxArenaActions

\* How a game can stand: 0 while it runs, the seat (1 or -1) of the winner, or
\* DrawMark for a game won by nobody.
DrawMark == 1 + 1
Endings == {1, 0 - 1, DrawMark}

\* game.getInitBoard()
InitBoard == [n |-> 0, ended |-> 0]

\* game.getGameEnded(board, player): 0 while the game runs, 1 if player won, -1
\* if player lost, another value for a draw.
GameEnded(board, player) ==
    IF board.ended = 0 THEN 0
    ELSE IF board.ended = DrawMark THEN DrawMark
    ELSE IF board.ended = player THEN 1 ELSE 0 - 1

\* game.getCanonicalForm(board, player)
CanonicalForm(board, player) == board

\* game.getValidMoves(canonical_board, 1): one action is invalid on each board.
ValidMoves(board) ==
    [a \in ArenaActions |-> IF a = (board.n % MaxArenaActions) + 1 THEN 0 ELSE 1]

\* game.getNextState(board, player, action): the game goes on or ends the way
\* the environment decides.
NextState(board, player, ending) ==
    [board |-> [n |-> board.n + 1, ended |-> ending], player |-> 0 - player]

\* one_vs_two = (i%4 == 0) or (i%4 == 3)
OneVsTwoAlternating(i) == i % 2 = 0

OneVsTwo(i) == (i % 4 = 0) \/ (i % 4 = 3)

\* players = [self.player1, None, self.player2] if other_way
\*           else [self.player2, None, self.player1]
\* as the numbers of the players; players[curPlayer + 1] is entry curPlayer + 2.
PlayersNeverSwapped(other_way) == <<2, 0, 1>>

Players(other_way) == IF other_way THEN <<1, 0, 2>> ELSE <<2, 0, 1>>

\* if valids[action] == 0: assert valids[action] > 0
AssertionSkipped(valids, action) == FALSE

AssertionFails(valids, action) == valids[action] = 0 /\ ~(valids[action] > 0)

NoArena == [pc |-> "idle", num |-> 0, i |-> 0, oneWon |-> 0, twoWon |-> 0,
            draws |-> 0, other_way |-> FALSE, board |-> InitBoard,
            curPlayer |-> 1, it |-> 0, action |-> 0,
            gameResult |-> 0, first |-> 0, starts |-> <<>>, winners |-> <<>>]

\* Arena.playGames(num), up to the loop
PlayGames(num) ==
    /\ arena.pc = "idle"
    /\ arena' = [NoArena EXCEPT !.pc = "games", !.num = num]
    /\ UNCHANGED <<evalVars, denseVars, convVars, flatVars>>

\* One pass of the loop of playGames up to the loop of playGame: the seats are
\* chosen and the board is set up.
StartGame ==
    /\ arena.pc = "games"
    /\ arena.i < arena.num
    /\ arena' = [arena EXCEPT !.pc = "turn",
                              !.other_way = ~OneVsTwo(arena.i),
                              !.curPlayer = 1,
                              !.board = InitBoard,
                              !.it = 0, !.action = 0,
                              !.first = 0]
    /\ UNCHANGED <<evalVars, denseVars, convVars, flatVars>>

\* One pass of the loop of playGame: the player to move answers action a, it
\* is looked up in the valid moves, and the game applies it.  first records
\* who made the first move.
Turn(a, ending) ==
    /\ arena.pc = "turn"
    /\ GameEnded(arena.board, arena.curPlayer) = 0
    /\ (arena.board.n + 1 = MaxMoves) => ending # 0
    /\ LET canonical_board == CanonicalForm(arena.board, arena.curPlayer)
           mover  == Players(arena.other_way)[arena.curPlayer + 2]
           valids == ValidMoves(canonical_board)
           next   == NextState(arena.board, arena.curPlayer, ending)
           moved  == [arena EXCEPT !.it = @ + 1, !.action = a,
                                   !.first = IF arena.it = 0 THEN mover ELSE @]
       IN  IF AssertionFails(valids, a)
           THEN arena' = [moved EXCEPT !.pc = "aborted"]
           ELSE arena' = [moved EXCEPT !.board = next.board,
                                       !.curPlayer = next.player]
    /\ UNCHANGED <<evalVars, denseVars, convVars, flatVars>>

\* playGame returns curPlayer * getGameEnded(board, curPlayer) and playGames
\* counts it.  winners records the player the game says has won (0: nobody).
EndGame ==
    /\ arena.pc = "turn"
    /\ GameEnded(arena.board, arena.curPlayer) # 0
    /\ LET gameResult == arena.curPlayer * GameEnded(arena.board, arena.curPlayer)
           one_vs_two == ~arena.other_way
           winner == IF arena.board.ended = DrawMark THEN 0
                     ELSE Players(arena.other_way)[arena.board.ended + 2]
       IN  arena' = [arena EXCEPT
              !.pc = "games",
              !.gameResult = gameResult,
              !.oneWon = IF gameResult = (IF one_vs_two THEN 1 ELSE 0 - 1)
                         THEN @ + 1 ELSE @,
              !.twoWon = IF gameResult # (IF one_vs_two THEN 1 ELSE 0 - 1)
                            /\ gameResult = (IF one_vs_two THEN 0 - 1 ELSE 1)
                         THEN @ + 1 ELSE @,
              !.draws  = IF gameResult # (IF one_vs_two THEN 1 ELSE 0 - 1)
                            /\ gameResult # (IF one_vs_two THEN 0 - 1 ELSE 1)
                         THEN @ + 1 ELSE @,
              !.i = @ + 1,
              !.starts = Append(@, arena.first),
              !.winners = Append(@, winner)]
    /\ UNCHANGED <<evalVars, denseVars, convVars, flatVars>>

\* playGames returns oneWon, twoWon, draws.
FinishGames ==
    /\ arena.pc = "games"
    /\ arena.i = arena.num
    /\ arena' = [arena EXCEPT !.pc = "done"]
    /\ UNCHANGED <<evalVars, denseVars, convVars, flatVars>>

Init ==
    /\ status = "absent"
    /\ version = NoVersion
    /\ stages = NoLayers
    /\ training = FALSE
    /\ bn = FreshBN
    /\ weights = NoWeights
    /\ call = NoCall
    /\ ref = NoRef
    /\ dense = NoDense
    /\ denseCall = NoDenseCall
    /\ conv = NoConv
    /\ convCall = NoConvCall
    /\ flat = NoFlat
    /\ flatCall = NoFlatCall
    /\ arena = NoArena
    /\ asked = NoVersion

\* The evaluator on encodings of the declared shape, one version for each
\* branch of forward().
EvalVersions == {EmptyVersion, 1, 11, 20, 66, 67, 99}

Next ==
    \/ \E v \in EvalVersions : Construct(v)
    \/ \E m \in BOOLEAN : SetTraining(m)
    \/ \E w \in TrainedWeightChoices : LoadWeights(w)
    \/ \E sh \in DeclaredShapes, seed \in 0..MaxSeed, mask \in Masks, keep \in BOOLEAN :
          Forward([shape |-> sh, seed |-> seed], mask, keep)
    \/ Return

Spec == Init /\ [][Next]_vars

\* Every version id and every encoding shape, with all actions valid.
NextRegistry ==
    \/ \E v \in VersionIds : Construct(v)
    \/ \E m \in BOOLEAN : SetTraining(m)
    \/ \E sh \in InputShapes : Forward([shape |-> sh, seed |-> 0], AllValid, TRUE)
    \/ Return

SpecRegistry == Init /\ [][NextRegistry]_vars

\* The dense pooling operator on its own.
NextDense ==
    \/ DenseConstruct
    \/ \E x \in DenseInputs : DenseForward(x)
    \/ DenseReturn

SpecDense == Init /\ [][NextDense]_vars

\* The convolution pooling operator on its own.
NextConv ==
    \/ ConvConstruct
    \/ \E n \in 0..MaxChanIn, s \in 0..MaxPattern : ConvForward(n, s)
    \/ ConvReturn

SpecConv == Init /\ [][NextConv]_vars

\* The flattening pooling operator on its own.
NextFlat ==
    \/ FlatConstruct
    \/ \E C \in 1..MaxFlatChan, L \in 1..MaxFlatLen, s \in 0..MaxPattern :
          FlatForward(C, L, s)
    \/ FlatReturn

SpecFlat == Init /\ [][NextFlat]_vars

\* An Arena playing a series of games.
NextArena ==
    \/ \E num \in 0..MaxGames : PlayGames(num)
    \/ StartGame
    \/ \E a \in ArenaActions, ending \in {0} \cup Endings : Turn(a, ending)
    \/ EndGame
    \/ FinishGames

SpecArena == Init /\ [][NextArena]_vars

----------------------------------------------------------------------------
(* The claims about the evaluator *)

\* C1: whenever forward() reaches log_softmax, the logit it feeds it at an
\* index the mask marks invalid is the lowvalue constant, at a valid index it
\* is the raw logit of the policy head, and the log-probabilities returned
\* are the normalisation of these masked logits.
C1_MaskedBeforeNormalisation ==
    call.kind = "ok" =>
        \A b \in 1..call.boards :
            /\ \A i \in Actions :
                  call.pi[b][i] = IF call.mask[i] THEN call.raw[b][i] ELSE LowValue
            /\ call.log_policy[b] = LogSoftmax(call.pi[b])

C1_Witness ==
    /\ call.kind = "ok"
    /\ \E i, j \in Actions :
          /\ call.mask[i] /\ ~call.mask[j]
          /\ call.raw[1][j] # LowValue /\ call.pi[1][j] = LowValue
          /\ call.pi[1][i] = call.raw[1][i]

\* C2: with at least one valid action, every action of highest returned
\* log-probability is a valid one.
C2_ArgmaxIsValid ==
    (call.kind = "ok" /\ \E i \in Actions : call.mask[i]) =>
        \A b \in 1..call.boards : \A i \in Actions :
            call.log_policy[b][i] = SeqMax(call.log_policy[b]) => call.mask[i]

\* C16: a mask with no true entry raises no error of its own (forward() fails
\* with it only where it fails with every mask); the logits it feeds
\* log_softmax are all the lowvalue constant and every action is returned the
\* same log-probability, that of 1/ActionSize.
C16_EmptyMaskIsUniform ==
    (call.kind # "none" /\ \A i \in Actions : ~call.mask[i]) =>
        /\ call.kind = "error" =>
              \A m \in Masks : ForwardResult(call.input, m, TRUE).call.kind = "error"
        /\ call.kind = "ok" =>
              \A b \in 1..call.boards : \A i \in Actions :
                  /\ call.pi[b][i] = LowValue
                  /\ call.log_policy[b][i] = 0 - FloorLn(1000 * ActionSize)

C16_Witness ==
    /\ call.kind = "ok"
    /\ \A i \in Actions : ~call.mask[i]
    /\ \E i, j \in Actions : call.raw[1][i] # call.raw[1][j]
    /\ \A i \in Actions : call.log_policy[1][i] = 0 - FloorLn(1000 * ActionSize)

\* C3 (as amended): a version id that is neither an architecture version nor
\* the empty-network id -1 makes the constructor raise and leaves no
\* evaluator; an architecture version yields an evaluator with its stage list
\* and both heads.
C3_UnknownVersionRaises ==
    /\ (asked # NoVersion /\ asked \notin ArchVersions \cup {EmptyVersion}) =>
          /\ status = "failed"
          /\ version = NoVersion /\ stages = NoLayers /\ weights = NoWeights
    /\ status = "ready" =>
          /\ version = asked
          /\ version \in ArchVersions =>
                stages.trunk # <<>> /\ stages.pi # <<>> /\ stages.v # <<>>

C3_Witness == status = "failed" /\ asked \in UnknownVersions

\* C3 (as stated): construction never returns an evaluator that has no stage
\* list and no heads.
C3_NoEmptyEvaluator ==
    status = "ready" =>
        /\ version \in ArchVersions
        /\ stages.trunk # <<>> /\ stages.pi # <<>> /\ stages.v # <<>>

\* C4: for every architecture version the constructor accepts, the shape the
\* reshape rule produces runs through every stage and both heads.
C4_PipelineShapeCompatible ==
    (status = "ready" /\ version \in ArchVersions) =>
        LET sh == ForwardShapes(version, stages) IN
        sh.pi = <<ActionSize>> /\ sh.v = <<NumPlayers>>

\* C5: a forward() call on an encoding that does not have the declared shape
\* raises an error.
C5_WrongShapeRaises ==
    (call.kind # "none" /\ ~DeclaredInput(call.input.shape)) => call.kind = "error"

\* C6 (as amended): forward() never changes the weights and, in evaluation
\* mode, does not change the running statistics; an evaluation-mode result for
\* the probe equals the earlier one when no training-mode forward() ran in
\* between.
C6_EvalModeIsPure ==
    /\ [](( /\ call.kind = "ok" /\ ~call.mode
            /\ call.input = ProbeInput /\ call.mask = ProbeMask
            /\ ref.set /\ ~ref.trained )
          => (call.log_policy = ref.log_policy /\ call.v = ref.v))
    /\ [][call'.kind # "none" =>
            /\ weights' = weights /\ status' = status /\ training' = training
            /\ (~training => bn' = bn)]_vars

C6_Witness ==
    /\ call.kind = "ok" /\ ~call.mode
    /\ call.input = ProbeInput /\ call.mask = ProbeMask
    /\ ref.set /\ ref.between /\ ~ref.trained
    /\ bn # FreshBN

\* C6 (as stated): forward() leaves the running statistics unchanged in
\* either mode.
C6_ForwardLeavesStateUnchanged ==
    [][call'.kind # "none" => (weights' = weights /\ bn' = bn)]_vars

----------------------------------------------------------------------------
(* The claims about DenseAndPartialGPool *)

C8_DenseRejectsBadSizes ==
    (dense.G * dense.K > dense.L \/ dense.Lp < 2 * dense.G) =>
        (dense.status = "failed" /\ denseCall.kind = "none")

C8_Witness ==
    /\ dense.status = "failed"
    /\ dense.G * dense.K > dense.L
    /\ dense.Lp >= 2 * dense.G

\* C12: reordering the entries of one group of the input, all other entries
\* kept, leaves the whole output of DenseAndPartialGPool.forward() unchanged.
C12_GroupPermutationInvariant ==
    denseCall.kind = "ok" =>
        \A g \in 1..dense.G : \A q \in Permutations(1..dense.K) :
            LET first == (g - 1) * dense.K
                y == [i \in 1..Len(denseCall.x) |->
                        IF i \in (first + 1)..(first + dense.K)
                        THEN denseCall.x[first + q[i - first]]
                        ELSE denseCall.x[i]]
            IN  DenseForwardResult(dense, y) = denseCall.out

C12_Witness ==
    /\ denseCall.kind = "ok"
    /\ dense.G >= 2 /\ dense.K >= 2
    /\ dense.L > dense.G * dense.K /\ dense.Lp > 2 * dense.G
    /\ denseCall.x[dense.K + 1] # denseCall.x[dense.K + 2]

----------------------------------------------------------------------------
(* The claims about Conv2dAndPartialMaxPool *)

\* C9: an accepted configuration splits its input channels exactly into the
\* planar channels, the channel groups and a non-negative number of
\* convolution inputs, and its output channels likewise; a configuration that
\* asks for more pooled channels than it has inputs or outputs makes the
\* constructor raise.
C9_ChannelConservation ==
    /\ conv.status = "ready" =>
          /\ conv.conv_input >= 0 /\ conv.conv_output >= 0
          /\ conv.P + conv.Gc * conv.Kc + conv.conv_input = conv.C
          /\ conv.P + conv.Gc + conv.conv_output = conv.Cp
    /\ (conv.P + conv.Gc * conv.Kc > conv.C \/ conv.P + conv.Gc > conv.Cp) =>
          (conv.status = "failed" /\ convCall.kind = "none")

C9_Witness ==
    /\ conv.status = "failed"
    /\ conv.P + conv.Gc * conv.Kc <= conv.C
    /\ conv.P + conv.Gc > conv.Cp

\* C10: for every accepted configuration, forward() on planes of the declared
\* channel count returns output_length planes of the size of the input: the
\* planar maxima, then the maximum of each channel band, then the convolution
\* branch.
C10_ConvLayout ==
    (convCall.kind # "none" /\ Len(convCall.x) = conv.C) =>
        LET x == convCall.x
            out == convCall.out
        IN  /\ convCall.kind = "ok"
            /\ Len(out) = conv.Cp
            /\ \A n \in 1..Len(out) :
                  PlaneH(out[n]) = Height /\ PlaneW(out[n]) = Width
            /\ \A i \in 1..conv.P : \A h \in 1..Height, w \in 1..Width :
                  out[i][h][w] >= x[i][h][w]
            /\ \A j \in 1..conv.Gc : \A h \in 1..Height, w \in 1..Width :
                  out[conv.P + j][h][w] =
                     SetMax({x[conv.P + (j - 1) * conv.Kc + k][h][w] :
                                k \in 1..conv.Kc})
            /\ \A o \in 1..conv.conv_output : \A h \in 1..Height, w \in 1..Width :
                  out[conv.P + conv.Gc + o][h][w] >= 0

----------------------------------------------------------------------------
(* The claims about FlattenAndPartialGPool *)

\* C11: on C channels of L positions, with length_to_pool p <= L and
\* nb_channels_to_pool c <= C, both at least 1, forward() returns one row of
\* 2p + (C - c)p + C(L - p) entries: for each of the first p positions the
\* maximum over the first c channels, then for each the average over them,
\* then the other channels of the first p positions channel after channel,
\* then all channels of the positions after p channel after channel.
C11_FlatLayout ==
    LET x == flatCall.x
        out == flatCall.out
        p == flat.p
        c == flat.c
        C == Len(x)
        L == Len(x[1])
    IN  (flatCall.kind # "none" /\ 1 <= c /\ c <= C /\ 1 <= p /\ p <= L) =>
            /\ flatCall.kind = "ok"
            /\ Len(out) = 2 * p + (C - c) * p + C * (L - p)
            /\ \A j \in 1..p :
                  /\ \A ch \in 1..c : out[j] >= x[ch][j]
                  /\ \E ch \in 1..c : out[j] = x[ch][j]
                  /\ c * out[p + j] = SeqSum([ch \in 1..c |-> x[ch][j]])
            /\ \A k \in 1..(C - c) : \A j \in 1..p :
                  out[2 * p + (k - 1) * p + j] = x[c + k][j]
            /\ \A ch \in 1..C : \A j \in 1..(L - p) :
                  out[2 * p + (C - c) * p + (ch - 1) * (L - p) + j] = x[ch][p + j]

C11_Witness ==
    /\ flatCall.kind = "ok"
    /\ flat.c >= 2 /\ flat.c < Len(flatCall.x)
    /\ flat.p >= 2 /\ flat.p < Len(flatCall.x[1])
    /\ flatCall.out[1] # flatCall.out[flat.p + 1]

----------------------------------------------------------------------------
(* The claims about Arena *)

Count(seq, v) == Cardinality({g \in 1..Len(seq) : seq[g] = v})

\* C13: the games of playGames(num) are started by player 1, 2, 2, 1 and so on
\* in turn; when playGames returns it has played num games and, for an even
\* num, each player made the first move in half of them.
C13_StartingOrder ==
    /\ \A g \in 1..Len(arena.starts) :
          arena.starts[g] = IF (g - 1) % 4 \in {0, 3} THEN 1 ELSE 2
    /\ arena.pc = "done" =>
          /\ Len(arena.starts) = arena.num
          /\ arena.num % 2 = 0 =>
                /\ 2 * Count(arena.starts, 1) = arena.num
                /\ 2 * Count(arena.starts, 2) = arena.num

C13_Witness ==
    /\ arena.pc = "done"
    /\ arena.num = 4
    /\ arena.starts = <<1, 2, 2, 1>>

C15_OnlyValidActionsApplied ==
    [][ /\ ( /\ arena.pc = "turn"
             /\ (arena'.board # arena.board \/ arena'.curPlayer # arena.curPlayer) )
           => /\ GameEnded(arena.board, arena.curPlayer) = 0
              /\ ValidMoves(CanonicalForm(arena.board, arena.curPlayer))[arena'.action] = 1
        /\ ( /\ arena.pc = "turn" /\ arena'.it # arena.it
             /\ ValidMoves(CanonicalForm(arena.board, arena.curPlayer))[arena'.action] = 0 )
           => /\ arena'.pc = "aborted"
              /\ arena'.board = arena.board /\ arena'.curPlayer = arena.curPlayer
      ]_vars

C15_Witness ==
    /\ arena.pc = "aborted"
    /\ arena.it = 2
    /\ arena.board.n = 1

====
